---- MODULE Spec2Model ----
(***************************************************************************)
(* nf_tables hardware offload (net/netfilter/nf_tables_offload.c):         *)
(*   - the flow rule compiler (nft_flow_rule_create) and its dependency    *)
(*     tracking (nft_offload_set_dependency/_update_dependency);           *)
(*   - the commit walk (nft_flow_rule_offload_commit), one step per        *)
(*     transaction record of net->nft.commit_list;                         *)
(*   - the block binder (nft_block_offload_cmd, nft_indr_block_offload_cmd)*)
(*     and the late-join path (nft_indr_block_get_and_ing_cmd).            *)
(* Two specifications: Spec (commit walk, binder, late join) and           *)
(* CompileSpec (compiler and dependency tracking).                         *)
(***************************************************************************)
EXTENDS Integers, Sequences, FiniteSets, TLC

VARIABLES
    cb_list,   \* basechain->flow_block.cb_list of every chain: sequence of block_cb ids, head first
    walk,      \* position of nft_flow_rule_offload_commit in net->nft.commit_list
    last,      \* what the most recent step did (record, entry points called, callbacks invoked)
    comp,      \* state of one nft_flow_rule_create call: rule, position i, flow, ctx,
               \* returned err, and as history: cause (why it failed), ndep (dependency
               \* calls so far), updrun (update calls since the last set call, at most 2),
               \* netval (what the last update call made with a network dependency
               \* pending copied), len and flagged (the len argument of the latest
               \* update call and whether it ran into a WARN_ON)
    installed, \* history: for every rule, the cookie of the replace command that
               \* installed it in the hardware, NULL when it is not installed
    iter       \* one nft_setup_cb_call traversal taken in steps: the chain and
               \* block_cb, the loop's current entry (0: none)

vars == <<cb_list, walk, last, comp, installed, iter>>

(***************************************************************************)
(* Bounds                                                                  *)
(***************************************************************************)
MaxLog == 3      \* records in one commit_list
MaxCb == 2       \* flow_block_cb entries that can be allocated at one time
MaxExprs == 2    \* expressions in one rule
MaxDepCalls == 3 \* dependency calls made during one compilation

(***************************************************************************)
(* Program constants                                                       *)
(***************************************************************************)
EOPNOTSUPP == -95
ENOMEM == -12
EINVAL == -22
EBUSY == -16
NF_DROP == 0
NF_ACCEPT == 1
POLICY_UNSET == -1
ETH_P_ALL == 3
SIZEOF_U16 == 2
SIZEOF_U8 == 1

NULL == "NULL"

Min(a, b) == IF a < b THEN a ELSE b

Range(s) == {s[i] : i \in 1..Len(s)}

RECURSIVE LowestFirst(_, _)
\* The n smallest members of the set S of numbers, in increasing order.
LowestFirst(n, S) ==
    IF n = 0 \/ S = {} THEN <<>>
    ELSE LET m == CHOOSE x \in S : \A y \in S : x <= y
         IN  <<m>> \o LowestFirst(n - 1, S \ {m})

(***************************************************************************)
(* The table/chain registry (net->nft.tables, table->chains) and devices.  *)
(***************************************************************************)
Devices == {"d1", "d2", "d3"}

\* Mutant: no device has a native entry point.
has_ndo_setup_tc_never(dev) == FALSE

\* dev->netdev_ops->ndo_setup_tc != NULL: d1 has a native entry point, d2 is
\* reached through the indirect registration, d3 is a device no chain names.
has_ndo_setup_tc(dev) == dev = "d1"

\* 1: base chain of an inet table; 2: netdev base chain on d2 without the
\* offload flag; 3: offload-enabled netdev base chain on d1; 4: offload-enabled
\* netdev chain that is not a base chain; 5: offload-enabled netdev base chain
\* on d2; 6: offload-enabled netdev base chain whose ops.dev is NULL.
ChainIds == 1..6

Chain(c) ==
    CASE c = 1 -> [family |-> "NFPROTO_INET",   base |-> TRUE,  hw_offload |-> TRUE,
                   dev |-> NULL, dev_name |-> ""]
      [] c = 2 -> [family |-> "NFPROTO_NETDEV", base |-> TRUE,  hw_offload |-> FALSE,
                   dev |-> "d2", dev_name |-> "d2"]
      [] c = 3 -> [family |-> "NFPROTO_NETDEV", base |-> TRUE,  hw_offload |-> TRUE,
                   dev |-> "d1", dev_name |-> "d1"]
      [] c = 4 -> [family |-> "NFPROTO_NETDEV", base |-> FALSE, hw_offload |-> TRUE,
                   dev |-> NULL, dev_name |-> ""]
      [] c = 5 -> [family |-> "NFPROTO_NETDEV", base |-> TRUE,  hw_offload |-> TRUE,
                   dev |-> "d2", dev_name |-> "d2"]
      [] c = 6 -> [family |-> "NFPROTO_NETDEV", base |-> TRUE,  hw_offload |-> TRUE,
                   dev |-> NULL, dev_name |-> "d0"]

\* net->nft.tables in list order, each with table->chains in list order.
Tables ==
    << [family |-> "NFPROTO_INET",   chains |-> <<1>>],
       [family |-> "NFPROTO_NETDEV", chains |-> <<2, 3, 4>>],
       [family |-> "NFPROTO_NETDEV", chains |-> <<5, 6>>] >>

nft_is_base_chain(c) == Chain(c).base

CbPool == 1..MaxCb

\* block_cb entries currently linked in some chain's block.
Allocated(lists) == UNION {Range(lists[c]) : c \in ChainIds}

(***************************************************************************)
(* Transaction records of net->nft.commit_list, as far as commit reads     *)
(* them: trans->ctx.family, trans->msg_type, trans->ctx.chain,             *)
(* nft_trans_chain_policy, trans->ctx.flags, nft_trans_flow_rule and       *)
(* nft_trans_rule.                                                         *)
(***************************************************************************)
\* Compiled flow rules (struct nft_flow_rule) a new-rule record may own.
Flows == {"fr_a"}

\* flow->proto
flow_proto(f) == IF f = "fr_a" THEN 8 ELSE 0

\* flow->rule
flow_rule(f) == IF f = "fr_a" THEN "rule_a" ELSE "rule_b"

Rules == {"r1", "r2"}

\* The rules that records of chain c name: r2 is a second rule of chain 3.
RulesOf(c) == IF c = 3 THEN Rules ELSE {"r1"}

Policies == {POLICY_UNSET, NF_DROP, NF_ACCEPT}

Trans ==
    {[family |-> Chain(c).family, msg_type |-> "NFT_MSG_NEWCHAIN", chain |-> c,
      policy |-> p, flags |-> {}, flow |-> NULL, rule |-> NULL] :
        c \in ChainIds, p \in Policies}
    \cup
    {[family |-> Chain(c).family, msg_type |-> "NFT_MSG_DELCHAIN", chain |-> c,
      policy |-> POLICY_UNSET, flags |-> {}, flow |-> NULL, rule |-> NULL] :
        c \in ChainIds}
    \cup
    UNION {{[family |-> Chain(c).family, msg_type |-> "NFT_MSG_NEWRULE", chain |-> c,
             policy |-> POLICY_UNSET, flags |-> fl, flow |-> f, rule |-> r] :
               fl \in SUBSET {"NLM_F_REPLACE", "NLM_F_APPEND"},
               f \in Flows \cup {NULL}, r \in RulesOf(c)} : c \in ChainIds}
    \cup
    UNION {{[family |-> Chain(c).family, msg_type |-> "NFT_MSG_DELRULE", chain |-> c,
             policy |-> POLICY_UNSET, flags |-> {}, flow |-> NULL, rule |-> r] :
               r \in RulesOf(c)} : c \in ChainIds}
    \cup
    {[family |-> fam, msg_type |-> "NFT_MSG_NEWTABLE", chain |-> 0,
      policy |-> POLICY_UNSET, flags |-> {}, flow |-> NULL, rule |-> NULL] :
        fam \in {"NFPROTO_INET", "NFPROTO_NETDEV"}}

NoTrans ==
    [family |-> "", msg_type |-> "", chain |-> 0, policy |-> POLICY_UNSET,
     flags |-> {}, flow |-> NULL, rule |-> NULL]

(***************************************************************************)
(* The device side: what a driver's block handler may do with a            *)
(* flow_block_offload.  On bind it adds new block_cb entries to bo.cb_list;*)
(* on unbind it moves entries of the block to bo.cb_list; a handler that   *)
(* reports failure leaves both lists alone.                                *)
(***************************************************************************)
DevErrs == {EBUSY}

\* n newly allocated block_cb entries in the order the handler added them
\* (flow_block_cb_add is list_add_tail).  Entries are interchangeable
\* objects: a new one takes the lowest id that is free.
NewEntries(n, lists) == LowestFirst(n, CbPool \ Allocated(lists))

BlockHandlerSuccess(cmd, c, lists) ==
    IF cmd = "FLOW_BLOCK_BIND"
    THEN {[err |-> 0, bo |-> NewEntries(n, lists), block |-> lists[c]] :
            n \in 0..Cardinality(CbPool \ Allocated(lists))}
    ELSE {[err |-> 0,
           bo |-> SelectSeq(lists[c], LAMBDA x : x \in T),
           block |-> SelectSeq(lists[c], LAMBDA x : x \notin T)] :
            T \in SUBSET Range(lists[c])}

\* dev->netdev_ops->ndo_setup_tc(dev, TC_SETUP_BLOCK, &bo)
ndo_setup_tc(cmd, c, lists) ==
    {[err |-> e, bo |-> <<>>, block |-> lists[c]] : e \in DevErrs}
    \cup BlockHandlerSuccess(cmd, c, lists)

\* flow_indr_block_call(dev, &bo, cmd): every registered indirect callback
\* handles bo; there is no return value.
flow_indr_block_call(cmd, c, lists) == BlockHandlerSuccess(cmd, c, lists)

\* cb(dev, cb_priv, TC_SETUP_BLOCK, &bo) of the late-join path; the return
\* value is ignored.
indr_block_bind_cb(cmd, c, lists) == BlockHandlerSuccess(cmd, c, lists)

(***************************************************************************)
(* The block binder.                                                       *)
(***************************************************************************)
\* Mutant: list_splice_tail.
nft_flow_offload_bind_tail(bo, block) == block \o bo

\* list_splice(&bo->cb_list, &basechain->flow_block.cb_list): the new
\* entries are linked right after the list head.
nft_flow_offload_bind(bo, block) == bo \o block

\* list_del + flow_block_cb_free of every entry of bo->cb_list.
nft_flow_offload_unbind(bo, block) ==
    SelectSeq(block, LAMBDA x : x \notin Range(bo))

nft_block_setup(block, bo, cmd) ==
    CASE cmd = "FLOW_BLOCK_BIND" ->
            [err |-> 0, list |-> nft_flow_offload_bind(bo, block)]
      [] cmd = "FLOW_BLOCK_UNBIND" ->
            [err |-> 0, list |-> nft_flow_offload_unbind(bo, block)]
      [] OTHER -> [err |-> EOPNOTSUPP, list |-> block]

\* out: what ndo_setup_tc did.
nft_block_offload_cmd(out, cmd) ==
    IF out.err < 0
    THEN [err |-> out.err, list |-> out.block]
    ELSE nft_block_setup(out.block, out.bo, cmd)

\* Mutant: the list_empty test left out.
nft_indr_block_offload_cmd_unchecked(out, cmd) ==
    nft_block_setup(out.block, out.bo, cmd)

\* out: what flow_indr_block_call did.
nft_indr_block_offload_cmd(out, cmd) ==
    IF out.bo = <<>>
    THEN [err |-> EOPNOTSUPP, list |-> out.block]
    ELSE nft_block_setup(out.block, out.bo, cmd)

\* Mutant: the accept comparison inverted.
PolicyUnsupported_inverted(cmd, policy) ==
    /\ cmd = "FLOW_BLOCK_BIND"
    /\ policy # POLICY_UNSET
    /\ policy = NF_ACCEPT

\* Only default policy to accept is supported for now.
PolicyUnsupported(cmd, policy) ==
    /\ cmd = "FLOW_BLOCK_BIND"
    /\ policy # POLICY_UNSET
    /\ policy # NF_ACCEPT

\* All the ways nft_flow_offload_chain(trans, cmd) can end: the error it
\* returns, the entry points it called, what they left in bo.cb_list and
\* the chain's callback list afterwards.
nft_flow_offload_chain(t, cmd, lists) ==
    LET c == t.chain
        refused == {[err |-> EOPNOTSUPP, setup |-> <<>>, bo |-> <<>>, list |-> lists[c]]}
    IN  IF ~nft_is_base_chain(c) THEN refused
        ELSE IF Chain(c).dev = NULL THEN refused
        ELSE IF PolicyUnsupported(cmd, t.policy) THEN refused
        ELSE IF has_ndo_setup_tc(Chain(c).dev)
        THEN {[err |-> nft_block_offload_cmd(out, cmd).err,
               setup |-> <<"ndo_setup_tc">>,
               bo |-> out.bo,
               list |-> nft_block_offload_cmd(out, cmd).list] :
                 out \in ndo_setup_tc(cmd, c, lists)}
        ELSE {[err |-> nft_indr_block_offload_cmd(out, cmd).err,
               setup |-> <<"flow_indr_block_call">>,
               bo |-> out.bo,
               list |-> nft_indr_block_offload_cmd(out, cmd).list] :
                 out \in flow_indr_block_call(cmd, c, lists)}

(***************************************************************************)
(* Hardware commands.                                                      *)
(***************************************************************************)
\* What a block callback may return for a command; a value >= 0 is success.
CbRets == {0, EINVAL, EBUSY}

NoCmd == [command |-> "none", cookie |-> NULL, protocol |-> 0, rule |-> NULL]

\* The return values of n callbacks in list order.  What a callback behind a
\* failing one would return is never read, and is taken as 0.
RetSeqs(n) ==
    {rets \in [1..n -> CbRets] :
        \A i \in 1..n : (\E j \in 1..i - 1 : rets[j] < 0) => rets[i] = 0}

\* rets[i]: what the i-th entry of the list returns when it is called;
\* returned: the values of the entries that were called.
nft_setup_cb_call(cbs, rets) ==
    LET failing == {i \in 1..Len(cbs) : rets[i] < 0}
    IN  IF failing = {}
        THEN [invoked |-> cbs, returned |-> rets, err |-> 0]
        ELSE LET k == CHOOSE i \in failing : \A j \in failing : i <= j
             IN  [invoked |-> SubSeq(cbs, 1, k), returned |-> SubSeq(rets, 1, k),
                  err |-> rets[k]]

\* Mutant: the cookie taken from the flow rule instead of the rule.
nft_flow_offload_rule_flow_cookie(t, command, cbs, rets) ==
    IF ~nft_is_base_chain(t.chain)
    THEN [err |-> EOPNOTSUPP, cmd |-> NoCmd, invoked |-> <<>>, returned |-> <<>>]
    ELSE LET flow == t.flow
             cls_flow == [command |-> command,
                          cookie |-> IF flow # NULL THEN flow_rule(flow) ELSE NULL,
                          protocol |-> IF flow # NULL THEN flow_proto(flow) ELSE ETH_P_ALL,
                          rule |-> IF flow # NULL THEN flow_rule(flow) ELSE NULL]
             call == nft_setup_cb_call(cbs, rets)
         IN  [err |-> call.err, cmd |-> cls_flow, invoked |-> call.invoked,
              returned |-> call.returned]

\* cls_flow.cookie = (unsigned long) rule: the rule's address, which is what
\* identifies a rule here.
nft_flow_offload_rule(t, command, cbs, rets) ==
    IF ~nft_is_base_chain(t.chain)
    THEN [err |-> EOPNOTSUPP, cmd |-> NoCmd, invoked |-> <<>>, returned |-> <<>>]
    ELSE LET flow == t.flow
             cls_flow == [command |-> command,
                          cookie |-> t.rule,
                          protocol |-> IF flow # NULL THEN flow_proto(flow) ELSE ETH_P_ALL,
                          rule |-> IF flow # NULL THEN flow_rule(flow) ELSE NULL]
             call == nft_setup_cb_call(cbs, rets)
         IN  [err |-> call.err, cmd |-> cls_flow, invoked |-> call.invoked,
              returned |-> call.returned]

\* Mutant: the replace test left out.
NotPureAppend_append_only(flags) == "NLM_F_APPEND" \notin flags

\* Mutant: the append test left out.
NotPureAppend_replace_only(flags) == "NLM_F_REPLACE" \in flags

\* trans->ctx.flags & NLM_F_REPLACE || !(trans->ctx.flags & NLM_F_APPEND)
NotPureAppend(flags) ==
    \/ "NLM_F_REPLACE" \in flags
    \/ "NLM_F_APPEND" \notin flags

(***************************************************************************)
(* nft_flow_rule_offload_commit: one step per record of the commit list.   *)
(***************************************************************************)
NoLast ==
    [op |-> "none", idx |-> 0, trans |-> NoTrans, dev |-> NULL, bcmd |-> "none",
     chain |-> 0, res |-> "none", err |-> 0, setup |-> <<>>, bo |-> <<>>,
     cmd |-> NoCmd, invoked |-> <<>>, rets |-> <<>>, destroyed |-> FALSE]

\* Mutant: a failing record does not end the walk.
Advance_continue(err, faulted) ==
    walk' = [walk EXCEPT
               !.pos = walk.pos + 1,
               !.err = err,
               !.status = IF faulted THEN "oops"
                          ELSE IF walk.pos + 1 = walk.len THEN "returned"
                          ELSE "walking"]

\* The walk after the record at walk.pos + 1 ended with err; faulted: the
\* record's handling dereferenced a null pointer.
Advance(err, faulted) ==
    walk' = [walk EXCEPT
               !.pos = walk.pos + 1,
               !.err = err,
               !.status = IF faulted THEN "oops"
                          ELSE IF err # 0 THEN "returned"
                          ELSE IF walk.pos + 1 = walk.len THEN "returned"
                          ELSE "walking"]

\* The hardware's view of the rules after the command r of record t: a
\* replace command that every callback accepted installs the rule under the
\* command's cookie, a destroy command that every callback accepted removes it.
Installed(t, r) ==
    IF r.cmd = NoCmd \/ r.err # 0 THEN installed
    ELSE IF r.cmd.command = "FLOW_CLS_REPLACE"
    THEN [installed EXCEPT ![t.rule] = r.cmd.cookie]
    ELSE [installed EXCEPT ![t.rule] = NULL]

\* The rule-management side hands over a commit list of n records.
CommitBegin ==
    /\ walk.status \in {"idle", "returned"}
    /\ \E n \in 0..MaxLog :
          walk' = [status |-> IF n = 0 THEN "returned" ELSE "walking",
                   pos |-> 0, len |-> n, err |-> 0]
    /\ last' = [NoLast EXCEPT !.op = "begin"]
    /\ UNCHANGED <<cb_list, comp, installed, iter>>

\* Mutant: the NFT_CHAIN_HW_OFFLOAD tests left out.
Skipped_family_only(t) ==
    IF t.family # "NFPROTO_NETDEV" THEN TRUE
    ELSE t.msg_type \notin {"NFT_MSG_NEWCHAIN", "NFT_MSG_DELCHAIN",
                            "NFT_MSG_NEWRULE", "NFT_MSG_DELRULE"}

\* trans->ctx.family != NFPROTO_NETDEV, or the owning chain has no
\* NFT_CHAIN_HW_OFFLOAD flag, or the message type is none of the four: continue.
Skipped(t) ==
    IF t.family # "NFPROTO_NETDEV" THEN TRUE
    ELSE IF t.msg_type \notin {"NFT_MSG_NEWCHAIN", "NFT_MSG_DELCHAIN",
                               "NFT_MSG_NEWRULE", "NFT_MSG_DELRULE"} THEN TRUE
    ELSE ~Chain(t.chain).hw_offload

SkippedTrans == {t \in Trans : Skipped(t)}

\* The records of one message type that are not skipped.
HandledTrans(msg_type) == {t \in Trans : ~Skipped(t) /\ t.msg_type = msg_type}

NewChainTrans == HandledTrans("NFT_MSG_NEWCHAIN")

DelChainTrans == HandledTrans("NFT_MSG_DELCHAIN")

NewRuleTrans == HandledTrans("NFT_MSG_NEWRULE")

DelRuleTrans == HandledTrans("NFT_MSG_DELRULE")

CommitSkip ==
    /\ walk.status = "walking"
    /\ \E t \in SkippedTrans :
          /\ last' = [NoLast EXCEPT !.op = "trans", !.idx = walk.pos + 1,
                                    !.trans = t, !.chain = t.chain, !.res = "skip"]
    /\ Advance(0, FALSE)
    /\ UNCHANGED <<cb_list, comp, installed, iter>>

BlockCmdOf(msg_type) ==
    IF msg_type = "NFT_MSG_NEWCHAIN" THEN "FLOW_BLOCK_BIND" ELSE "FLOW_BLOCK_UNBIND"

\* case NFT_MSG_NEWCHAIN / NFT_MSG_DELCHAIN
CommitChain(msg_type, records) ==
    /\ walk.status = "walking"
    /\ \E t \in records :
          /\ \E o \in nft_flow_offload_chain(t, BlockCmdOf(msg_type), cb_list) :
                /\ cb_list' = [cb_list EXCEPT ![t.chain] = o.list]
                /\ last' = [NoLast EXCEPT
                              !.op = "trans", !.idx = walk.pos + 1, !.trans = t,
                              !.chain = t.chain, !.bcmd = BlockCmdOf(msg_type),
                              !.res = IF o.err # 0 THEN "fail" ELSE "ok",
                              !.err = o.err, !.setup = o.setup, !.bo = o.bo]
                /\ Advance(o.err, FALSE)
    /\ UNCHANGED <<comp, installed, iter>>

CommitNewChain == CommitChain("NFT_MSG_NEWCHAIN", NewChainTrans)

CommitDelChain == CommitChain("NFT_MSG_DELCHAIN", DelChainTrans)

\* case NFT_MSG_NEWRULE
CommitNewRule ==
    /\ walk.status = "walking"
    /\ \E t \in NewRuleTrans :
          /\ IF NotPureAppend(t.flags)
             THEN /\ last' = [NoLast EXCEPT
                                !.op = "trans", !.idx = walk.pos + 1, !.trans = t,
                                !.chain = t.chain, !.res = "fail", !.err = EOPNOTSUPP]
                  /\ Advance(EOPNOTSUPP, FALSE)
                  /\ UNCHANGED installed
             ELSE \E rets \in RetSeqs(Len(cb_list[t.chain])) :
                    LET r == nft_flow_offload_rule(t, "FLOW_CLS_REPLACE",
                                                   cb_list[t.chain], rets)
                        \* nft_flow_rule_destroy(NULL) reads flow->rule
                        faulted == t.flow = NULL
                    IN  /\ last' = [NoLast EXCEPT
                                      !.op = "trans", !.idx = walk.pos + 1, !.trans = t,
                                      !.chain = t.chain,
                                      !.res = IF faulted THEN "oops"
                                              ELSE IF r.err # 0 THEN "fail" ELSE "ok",
                                      !.err = r.err, !.cmd = r.cmd,
                                      !.invoked = r.invoked, !.rets = r.returned,
                                      !.destroyed = ~faulted]
                        /\ Advance(r.err, faulted)
                        /\ installed' = Installed(t, r)
    /\ UNCHANGED <<cb_list, comp, iter>>

\* case NFT_MSG_DELRULE
CommitDelRule ==
    /\ walk.status = "walking"
    /\ \E t \in DelRuleTrans :
          /\ \E rets \in RetSeqs(Len(cb_list[t.chain])) :
                LET r == nft_flow_offload_rule(t, "FLOW_CLS_DESTROY",
                                               cb_list[t.chain], rets)
                IN  /\ last' = [NoLast EXCEPT
                                  !.op = "trans", !.idx = walk.pos + 1, !.trans = t,
                                  !.chain = t.chain,
                                  !.res = IF r.err # 0 THEN "fail" ELSE "ok",
                                  !.err = r.err, !.cmd = r.cmd,
                                  !.invoked = r.invoked, !.rets = r.returned]
                    /\ Advance(r.err, FALSE)
                    /\ installed' = Installed(t, r)
    /\ UNCHANGED <<cb_list, comp, iter>>

(***************************************************************************)
(* Late join: nft_indr_block_get_and_ing_cmd.                              *)
(***************************************************************************)
RECURSIVE NetdevChains(_)
\* The chains the two nested list walks visit, in order, from table i on.
NetdevChains(i) ==
    IF i > Len(Tables) THEN <<>>
    ELSE (IF Tables[i].family = "NFPROTO_NETDEV" THEN Tables[i].chains ELSE <<>>)
         \o NetdevChains(i + 1)

\* The first base chain whose dev_name equals dev->name; 0 when there is none.
LateJoinChain(dev) ==
    LET m == SelectSeq(NetdevChains(1),
                       LAMBDA c : nft_is_base_chain(c) /\ Chain(c).dev_name = dev)
    IN  IF m = <<>> THEN 0 ELSE Head(m)

\* nft_indr_block_ing_cmd with out: what cb did with bo.
nft_indr_block_ing_cmd(out, cmd) == nft_block_setup(out.block, out.bo, cmd).list

LateJoin ==
    /\ \E dev \in Devices, cmd \in {"FLOW_BLOCK_BIND", "FLOW_BLOCK_UNBIND"} :
          LET c == LateJoinChain(dev)
          IN  IF c = 0
              THEN /\ last' = [NoLast EXCEPT !.op = "late_join", !.dev = dev,
                                             !.bcmd = cmd]
                   /\ UNCHANGED cb_list
              ELSE \E out \in indr_block_bind_cb(cmd, c, cb_list) :
                     /\ cb_list' = [cb_list EXCEPT
                                      ![c] = nft_indr_block_ing_cmd(out, cmd)]
                     /\ last' = [NoLast EXCEPT
                                   !.op = "late_join", !.dev = dev, !.bcmd = cmd,
                                   !.chain = c, !.res = "ok",
                                   !.setup = <<"indr_block_bind_cb">>,
                                   !.bo = out.bo]
    /\ UNCHANGED <<walk, comp, installed, iter>>

(***************************************************************************)
(* nft_setup_cb_call in steps: one step per callback of the traversal of   *)
(* basechain->flow_block.cb_list, with the late join running beside it.    *)
(* Neither function takes a lock or enters a read-side section.            *)
(***************************************************************************)
\* The chains whose rule records the commit walk dispatches.
DispatchChains ==
    {c \in ChainIds : /\ Chain(c).family = "NFPROTO_NETDEV"
                      /\ Chain(c).hw_offload
                      /\ nft_is_base_chain(c)}

NoIter == [status |-> "idle", chain |-> 0, cur |-> 0, err |-> 0]

\* block_cb->list.next of entry x of list; 0 when x is the last one.
NextEntry(list, x) ==
    LET i == CHOOSE k \in 1..Len(list) : list[k] = x
    IN  IF i = Len(list) THEN 0 ELSE list[i + 1]

\* list_for_each_entry(block_cb, &basechain->flow_block.cb_list, list):
\* block_cb is set to the first entry.
SetupCbCallBegin ==
    /\ iter.status \in {"idle", "done"}
    /\ \E c \in DispatchChains :
          iter' = IF cb_list[c] = <<>>
                  THEN [NoIter EXCEPT !.status = "done", !.chain = c]
                  ELSE [NoIter EXCEPT !.status = "iterating", !.chain = c,
                                      !.cur = Head(cb_list[c])]
    /\ UNCHANGED <<cb_list, walk, last, comp, installed>>

\* err = block_cb->cb(...); if (err < 0) return err; then on to the next
\* entry.  When block_cb was unlinked and freed in the meantime the step reads
\* freed memory: status "freed_read", after which the traversal is not
\* followed any further.
SetupCbCallStep ==
    /\ iter.status = "iterating"
    /\ LET list == cb_list[iter.chain]
       IN  IF iter.cur \notin Range(list)
           THEN iter' = [iter EXCEPT !.status = "freed_read"]
           ELSE \E ret \in CbRets :
                  iter' = IF ret < 0
                          THEN [iter EXCEPT !.status = "done", !.err = ret, !.cur = 0]
                          ELSE IF NextEntry(list, iter.cur) = 0
                          THEN [iter EXCEPT !.status = "done", !.cur = 0]
                          ELSE [iter EXCEPT !.cur = NextEntry(list, iter.cur)]
    /\ UNCHANGED <<cb_list, walk, last, comp, installed>>

(***************************************************************************)
(* The flow rule compiler: nft_flow_rule_create, one step per expression,  *)
(* and the dependency calls the expressions' offload steps make.           *)
(***************************************************************************)
\* An expression as the compiler sees it: whether expr->ops->offload is set
\* and whether expr->ops->offload_flags has NFT_OFFLOAD_F_ACTION.
Exprs == [offload : BOOLEAN, action : BOOLEAN]

RuleInputs == UNION {[1..n -> Exprs] : n \in 0..MaxExprs}

\* What expr->ops->offload(&ctx, flow, expr) may return.
OffloadRets == {0, EOPNOTSUPP, EINVAL}

Bytes == {0, 8}

DepTypes == {"NFT_OFFLOAD_DEP_UNSPEC", "NFT_OFFLOAD_DEP_NETWORK",
             "NFT_OFFLOAD_DEP_TRANSPORT"}

\* struct nft_offload_ctx ctx = { .dep = { .type = NFT_OFFLOAD_DEP_UNSPEC } }
CtxInit == [type |-> "NFT_OFFLOAD_DEP_UNSPEC", l3num |-> 0, protonum |-> 0]

\* Mutant: every expression counted.
CountActions_all(rule) == Len(rule)

\* First loop of nft_flow_rule_create.
RECURSIVE CountActions(_)
CountActions(rule) ==
    IF rule = <<>> THEN 0
    ELSE (IF Head(rule).action THEN 1 ELSE 0) + CountActions(Tail(rule))

\* nft_flow_rule_alloc(num_actions); ok: both allocations succeeded.
nft_flow_rule_alloc(num_actions, ok) ==
    IF ok
    THEN [state |-> "live", num_actions |-> num_actions, proto |-> 0]
    ELSE [state |-> "none", num_actions |-> 0, proto |-> 0]

\* Mutant: the flow rule is not freed.
nft_flow_rule_destroy_leak(flow) == flow

nft_flow_rule_destroy(flow) == [flow EXCEPT !.state = "destroyed"]

nft_offload_set_dependency(ctx, type) == [ctx EXCEPT !.type = type]

\* memcpy of sizeof(__u16) bytes at data into a 16 bit field, and of
\* sizeof(__u8) bytes into an 8 bit field; data: the bytes at the address.
Copy16(data) == data[1] + 256 * data[2]

Copy8(data) == data[1]

\* Mutant: the pending dependency is reset only when something was copied.
nft_offload_update_dependency_keep(ctx, data, len) ==
    CASE ctx.type = "NFT_OFFLOAD_DEP_NETWORK" ->
           [ctx EXCEPT !.l3num = Copy16(data), !.type = "NFT_OFFLOAD_DEP_UNSPEC"]
      [] ctx.type = "NFT_OFFLOAD_DEP_TRANSPORT" ->
           [ctx EXCEPT !.protonum = Copy8(data)]
      [] OTHER -> ctx

nft_offload_update_dependency(ctx, data, len) ==
    LET copied ==
          CASE ctx.type = "NFT_OFFLOAD_DEP_NETWORK" ->
                 [ctx EXCEPT !.l3num = Copy16(data)]
            [] ctx.type = "NFT_OFFLOAD_DEP_TRANSPORT" ->
                 [ctx EXCEPT !.protonum = Copy8(data)]
            [] OTHER -> ctx
    IN  [copied EXCEPT !.type = "NFT_OFFLOAD_DEP_UNSPEC"]

\* Mutant: only the network case has a WARN_ON.
UpdateWarns_network_only(ctx, len) ==
    ctx.type = "NFT_OFFLOAD_DEP_NETWORK" /\ len # SIZEOF_U16

\* WARN_ON(len != sizeof(__u16)) / WARN_ON(len != sizeof(__u8))
UpdateWarns(ctx, len) ==
    \/ ctx.type = "NFT_OFFLOAD_DEP_NETWORK" /\ len # SIZEOF_U16
    \/ ctx.type = "NFT_OFFLOAD_DEP_TRANSPORT" /\ len # SIZEOF_U8

NoFlow == [state |-> "none", num_actions |-> 0, proto |-> 0]

CompIdle ==
    [pc |-> "idle", rule |-> <<>>, i |-> 0, flow |-> NoFlow, ctx |-> CtxInit,
     err |-> 0, cause |-> "none", ndep |-> 0, updrun |-> 0, warned |-> FALSE,
     netval |-> 0, len |-> 0, flagged |-> FALSE]

\* Entry, first loop and allocation.
CreateBegin ==
    /\ comp.pc \in {"idle", "done"}
    /\ \E rule \in RuleInputs, ok \in BOOLEAN :
          LET flow == nft_flow_rule_alloc(CountActions(rule), ok)
          IN  comp' = IF ~ok
                      THEN [CompIdle EXCEPT !.pc = "done", !.rule = rule,
                                            !.flow = flow, !.err = ENOMEM,
                                            !.cause = "alloc"]
                      ELSE [CompIdle EXCEPT !.pc = "fill", !.rule = rule, !.i = 1,
                                            !.flow = flow]
    /\ UNCHANGED <<cb_list, walk, last, installed, iter>>

AtExpr == comp.pc = "fill" /\ comp.i <= Len(comp.rule)

\* if (!expr->ops->offload) { err = -EOPNOTSUPP; goto err_out; }
ExprNoOffload ==
    /\ AtExpr
    /\ ~comp.rule[comp.i].offload
    /\ comp' = [comp EXCEPT !.pc = "done", !.err = EOPNOTSUPP,
                            !.cause = "no_offload",
                            !.flow = nft_flow_rule_destroy(comp.flow)]
    /\ UNCHANGED <<cb_list, walk, last, installed, iter>>

\* The running offload step calls nft_offload_set_dependency.
SetDependency ==
    /\ AtExpr
    /\ comp.rule[comp.i].offload
    /\ comp.ndep < MaxDepCalls
    /\ \E type \in DepTypes :
          comp' = [comp EXCEPT !.ctx = nft_offload_set_dependency(comp.ctx, type),
                               !.ndep = comp.ndep + 1, !.updrun = 0]
    /\ UNCHANGED <<cb_list, walk, last, installed, iter>>

\* The running offload step calls nft_offload_update_dependency.  data: the
\* sizeof(__u16) bytes at the address passed; with a smaller len the second
\* one is whatever lies behind the caller's datum.
UpdateDependency ==
    /\ AtExpr
    /\ comp.rule[comp.i].offload
    /\ comp.ndep < MaxDepCalls
    /\ \E data \in [1..2 -> Bytes], len \in {SIZEOF_U8, SIZEOF_U16} :
          comp' = [comp EXCEPT
                     !.ctx = nft_offload_update_dependency(comp.ctx, data, len),
                     !.warned = comp.warned \/ UpdateWarns(comp.ctx, len),
                     !.flagged = UpdateWarns(comp.ctx, len),
                     !.len = len,
                     !.netval = IF comp.ctx.type = "NFT_OFFLOAD_DEP_NETWORK"
                                THEN Copy16(data) ELSE comp.netval,
                     !.ndep = comp.ndep + 1,
                     !.updrun = Min(comp.updrun + 1, 2)]
    /\ UNCHANGED <<cb_list, walk, last, installed, iter>>

\* err = expr->ops->offload(&ctx, flow, expr); if (err < 0) goto err_out;
ExprReturn ==
    /\ AtExpr
    /\ comp.rule[comp.i].offload
    /\ \E ret \in OffloadRets :
          comp' = IF ret < 0
                  THEN [comp EXCEPT !.pc = "done", !.err = ret,
                                    !.cause = "offload_ret",
                                    !.flow = nft_flow_rule_destroy(comp.flow)]
                  ELSE [comp EXCEPT !.i = comp.i + 1]
    /\ UNCHANGED <<cb_list, walk, last, installed, iter>>

\* Mutant: the protocol tag taken from the layer 4 protocol number.
CreateReturn_protonum ==
    /\ comp.pc = "fill"
    /\ comp.i > Len(comp.rule)
    /\ comp' = [comp EXCEPT !.pc = "done", !.err = 0,
                            !.flow = [comp.flow EXCEPT !.proto = comp.ctx.protonum]]
    /\ UNCHANGED <<cb_list, walk, last, installed, iter>>

\* flow->proto = ctx.dep.l3num; return flow;
CreateReturn ==
    /\ comp.pc = "fill"
    /\ comp.i > Len(comp.rule)
    /\ comp' = [comp EXCEPT !.pc = "done", !.err = 0,
                            !.flow = [comp.flow EXCEPT !.proto = comp.ctx.l3num]]
    /\ UNCHANGED <<cb_list, walk, last, installed, iter>>

NextCompile ==
    \/ CreateBegin
    \/ ExprNoOffload
    \/ SetDependency
    \/ UpdateDependency
    \/ ExprReturn
    \/ CreateReturn

(***************************************************************************)
(* Specification of the commit walk, the binder and the late join.         *)
(***************************************************************************)
Init ==
    /\ cb_list = [c \in ChainIds |-> <<>>]
    /\ walk = [status |-> "idle", pos |-> 0, len |-> 0, err |-> 0]
    /\ last = NoLast
    /\ comp = CompIdle
    /\ installed = [r \in Rules |-> NULL]
    /\ iter = NoIter

Next ==
    \/ CommitBegin
    \/ CommitSkip
    \/ CommitNewChain
    \/ CommitDelChain
    \/ CommitNewRule
    \/ CommitDelRule
    \/ LateJoin

Spec == Init /\ [][Next]_vars

CompileSpec == Init /\ [][NextCompile]_vars

\* The dispatch of a rule record in steps and the late join.
NextRace ==
    \/ SetupCbCallBegin
    \/ SetupCbCallStep
    \/ LateJoin

RaceSpec == Init /\ [][NextRace]_vars

(***************************************************************************)
(* Properties.                                                             *)
(***************************************************************************)
\* The state right after the commit walk handled a record that was not skipped.
Handled == last.op = "trans" /\ last.res # "skip"

\* This step is the commit walk handling one record.
TransStep == walk.status = "walking" /\ walk'.pos = walk.pos + 1 /\ last'.op = "trans"

\* The record just handled is a new-chain record of an offload-enabled
\* device-family base chain that has a device.
NewChainOnDevice ==
    /\ Handled
    /\ last.trans.msg_type = "NFT_MSG_NEWCHAIN"
    /\ nft_is_base_chain(last.chain)
    /\ Chain(last.chain).dev # NULL

C1_Refused ==
    (NewChainOnDevice /\ last.trans.policy \notin {NF_ACCEPT, POLICY_UNSET})
        => /\ last.err = EOPNOTSUPP
           /\ last.setup = <<>>
           /\ last.bo = <<>>
           /\ walk.status = "returned"
           /\ walk.err = EOPNOTSUPP

C1_Accepted ==
    (NewChainOnDevice /\ last.trans.policy \in {NF_ACCEPT, POLICY_UNSET})
        => /\ Len(last.setup) = 1
           /\ last.bo # <<>> =>
                 /\ last.err = 0
                 /\ walk.err = 0
                 /\ walk.len = 1 => walk.status = "returned"
                 /\ cb_list[last.chain] # <<>>
                 /\ Range(last.bo) \subseteq Range(cb_list[last.chain])

\* C1: a new-chain record of an offload-enabled device-family base chain whose
\* policy is neither accept nor unset fails with EOPNOTSUPP before any device
\* entry point or indirect registration is called, and the chain's callback
\* list is left as it was; with policy accept or unset the device is asked,
\* and when it registers callbacks the record succeeds and the block holds them.
C1_PolicyGate ==
    /\ [](C1_Refused /\ C1_Accepted)
    /\ [][(TransStep /\ last'.trans.msg_type = "NFT_MSG_NEWCHAIN"
                     /\ last'.res # "skip"
                     /\ last'.trans.policy \notin {NF_ACCEPT, POLICY_UNSET})
             => cb_list' = cb_list]_vars

\* A one-record log whose new-chain record has policy drop was refused on the
\* native device's chain, whose block is unbound.
C1_Witness ==
    /\ NewChainOnDevice
    /\ last.chain = 3
    /\ last.trans.policy = NF_DROP
    /\ walk.len = 1
    /\ last.err = EOPNOTSUPP
    /\ cb_list[3] = <<>>

\* C2: a new-rule record on an offload-enabled device-family chain whose
\* insertion mode is not a pure append (replace flag set, or append flag
\* absent) fails with EOPNOTSUPP whatever flow rule it owns, and no command is
\* built or delivered to any callback for it.
C2_NonAppendRefused ==
    (/\ Handled
     /\ last.trans.msg_type = "NFT_MSG_NEWRULE"
     /\ \/ "NLM_F_REPLACE" \in last.trans.flags
        \/ "NLM_F_APPEND" \notin last.trans.flags)
        => /\ last.err = EOPNOTSUPP
           /\ last.cmd = NoCmd
           /\ last.invoked = <<>>
           /\ walk.status = "returned"
           /\ walk.err = EOPNOTSUPP

\* A record with a flow rule and with both flags set was refused on a chain
\* whose block holds a callback.
C2_Witness ==
    /\ Handled
    /\ last.trans.msg_type = "NFT_MSG_NEWRULE"
    /\ last.trans.flags = {"NLM_F_REPLACE", "NLM_F_APPEND"}
    /\ last.trans.flow # NULL
    /\ cb_list[last.chain] # <<>>
    /\ last.err = EOPNOTSUPP

\* The record handled before this step was a successful unbind that emptied
\* the block of chain c.
JustUnbound(c) ==
    /\ Handled
    /\ last.trans.msg_type = "NFT_MSG_DELCHAIN"
    /\ last.chain = c
    /\ last.err = 0
    /\ last.bo # <<>>
    /\ cb_list[c] = <<>>

\* This step handles a delete-chain record of an offload-enabled
\* device-family base chain that has a device.
UnbindStep ==
    /\ TransStep
    /\ last'.res # "skip"
    /\ last'.trans.msg_type = "NFT_MSG_DELCHAIN"
    /\ nft_is_base_chain(last'.chain)
    /\ Chain(last'.chain).dev # NULL

\* C3: when an unbind hands back every callback of the block, the block's
\* callback list is empty afterwards, and an unbind of the block that the
\* record before it has just unbound is reported as an error.
C3_RoundTrip ==
    [][UnbindStep =>
          /\ (last'.err = 0 /\ Range(cb_list[last'.chain]) \subseteq Range(last'.bo))
                => cb_list'[last'.chain] = <<>>
          /\ JustUnbound(last'.chain) => last'.err < 0]_vars

\* Chain c is an offload-enabled device-family base chain bound to device dev.
BoundTo(c, dev) ==
    /\ Chain(c).family = "NFPROTO_NETDEV"
    /\ nft_is_base_chain(c)
    /\ Chain(c).hw_offload
    /\ Chain(c).dev_name = dev
    /\ cb_list[c] # <<>>

\* s is t with some entries left out.
IsSubSeq(s, t) == s = SelectSeq(t, LAMBDA x : x \in Range(s))

LateJoinStep == last'.op = "late_join" /\ walk' = walk /\ last' # last

\* C4: a late join with the bind command for a device to which chain c is
\* bound calls the new callback once, issues no hardware command, links what
\* the callback returned into c's block and nothing else: the entries c's
\* block held stay, in their order, and no other block changes.  With no
\* chain of that device name nothing is called and no block changes.
C4_LateJoin ==
    [][(LateJoinStep /\ last'.bcmd = "FLOW_BLOCK_BIND") =>
          /\ \A c \in ChainIds :
                BoundTo(c, last'.dev) =>
                   /\ last'.chain = c
                   /\ last'.setup = <<"indr_block_bind_cb">>
                   /\ last'.invoked = <<>>
                   /\ IsSubSeq(cb_list[c], cb_list'[c])
                   /\ Range(cb_list'[c]) = Range(cb_list[c]) \cup Range(last'.bo)
                   /\ \A d \in ChainIds \ {c} : cb_list'[d] = cb_list[d]
          /\ (\A c \in ChainIds :
                ~(Chain(c).family = "NFPROTO_NETDEV" /\ nft_is_base_chain(c)
                  /\ Chain(c).dev_name = last'.dev))
                => (last'.setup = <<>> /\ cb_list' = cb_list)]_vars

\* C8: the records are handled one at a time in list order; the first record
\* that fails ends the walk, which returns that record's error; once the walk
\* has ended no further record is handled; and the failing record leaves every
\* block's callback list as the records before it left it.  (A record whose
\* handling faults, see C10, ends the walk without a return value.)
C8_StopsAtFirstFailure ==
    /\ [](last.op = "trans" => last.idx = walk.pos)
    /\ [](Handled /\ last.err # 0 /\ last.res # "oops"
            => /\ walk.status = "returned"
               /\ walk.err = last.err)
    /\ [][walk'.pos # walk.pos
            => \/ /\ walk.status = "walking"
                  /\ walk'.pos = walk.pos + 1
                  /\ last'.op = "trans"
               \/ /\ walk.status = "returned"
                  /\ walk'.pos = 0
                  /\ last'.op = "begin"]_vars
    /\ [][walk.status # "walking" => last'.op # "trans"]_vars
    /\ [][(TransStep /\ last'.err # 0) => cb_list' = cb_list]_vars

\* The second record of a list of three failed after the first one had been
\* handled: the walk returned its error and the third was never reached.
C8_Witness ==
    /\ Handled
    /\ last.err # 0
    /\ last.idx = 2
    /\ walk.len = 3
    /\ walk.status = "returned"
    /\ walk.err = last.err
    /\ cb_list[last.chain] # <<>>

\* The record just handled had a hardware command built for it.
Dispatched == Handled /\ last.cmd # NoCmd

\* The callbacks were called in the order of the block's list, up to the first
\* one that returned an error, which is the record's error.
DispatchInListOrder ==
    Dispatched =>
       /\ Len(last.rets) = Len(last.invoked)
       /\ last.invoked = SubSeq(cb_list[last.chain], 1, Len(last.invoked))
       /\ \A i \in 1..Len(last.invoked) - 1 : last.rets[i] >= 0
       /\ IF last.err = 0
          THEN /\ last.invoked = cb_list[last.chain]
               /\ \A i \in 1..Len(last.rets) : last.rets[i] >= 0
          ELSE /\ last.invoked # <<>>
               /\ last.rets[Len(last.rets)] = last.err
               /\ last.err < 0

\* This step binds callbacks to a block: a new-chain record, or a late join
\* with the bind command that found a chain.
BindStep ==
    /\ last'.bcmd = "FLOW_BLOCK_BIND"
    /\ last' # last \/ cb_list' # cb_list
    /\ last'.chain # 0
    /\ last'.err = 0
    /\ last'.setup # <<>>

\* The original statement of C9: dispatch follows the order in which the
\* callbacks were registered, also over several binds and late joins; as
\* dispatch follows the list, every bind has to link its callbacks behind the
\* ones registered before.
C9_RegistrationOrder ==
    /\ []DispatchInListOrder
    /\ [][BindStep
            => cb_list'[last'.chain] = cb_list[last'.chain] \o last'.bo]_vars

\* C9 (amended): each hardware command is delivered to the callbacks of the
\* target chain's block in the order of the block's list, and the first
\* callback that reports failure ends the dispatch: no callback after it is
\* called and the record fails with that callback's error.  The callbacks of
\* one bind are in the list in the order in which they were registered; a
\* later bind or late join puts its callbacks in front of the ones the block
\* already holds.
C9_ListOrder ==
    /\ []DispatchInListOrder
    /\ [][BindStep
            => cb_list'[last'.chain] = last'.bo \o cb_list[last'.chain]]_vars

\* The first of two callbacks failed and the second was not called.
C9_Witness ==
    /\ Dispatched
    /\ Len(cb_list[last.chain]) = 2
    /\ Len(last.invoked) = 1
    /\ last.err < 0

\* The record just handled is a new-rule record accepted as a pure append on
\* an offload-enabled device-family base chain.
AppendAccepted ==
    /\ Handled
    /\ last.trans.msg_type = "NFT_MSG_NEWRULE"
    /\ last.trans.flags = {"NLM_F_APPEND"}
    /\ nft_is_base_chain(last.chain)

\* C10: for a new-rule record accepted as a pure append, commit issues a
\* replace command with the record's flow rule and protocol, or without a
\* rule reference when the record has no flow rule, then destroys the flow
\* rule; a record without a flow rule is handled without a fault, and the
\* walk goes on to the next record.
C10_ReplaceThenDestroy ==
    AppendAccepted =>
       /\ last.cmd.command = "FLOW_CLS_REPLACE"
       /\ IF last.trans.flow # NULL
          THEN /\ last.cmd.rule = flow_rule(last.trans.flow)
               /\ last.cmd.protocol = flow_proto(last.trans.flow)
               /\ last.destroyed
          ELSE last.cmd.rule = NULL
       /\ last.res # "oops"
       /\ walk.status # "oops"
       /\ (last.err = 0 /\ walk.pos < walk.len) => walk.status = "walking"

\* This step handles a delete-rule record and builds a destroy command.
DestroyStep ==
    /\ TransStep
    /\ last'.trans.msg_type = "NFT_MSG_DELRULE"
    /\ last'.cmd # NoCmd

\* C11: the cookie of the destroy command of a delete-rule record is the
\* cookie under which the record's rule was installed by its replace command,
\* and is the cookie of no other rule that is installed.
C11_StableCookie ==
    [][DestroyStep =>
          /\ last'.cmd.command = "FLOW_CLS_DESTROY"
          /\ installed[last'.trans.rule] # NULL
                => last'.cmd.cookie = installed[last'.trans.rule]
          /\ \A o \in Rules \ {last'.trans.rule} :
                installed[o] # NULL => last'.cmd.cookie # installed[o]]_vars

\* Both rules of chain 3 are installed and the destroy command of the first
\* one, carrying the cookie of its replace command, was delivered to a
\* callback, which refused it.
C11_Witness ==
    /\ Handled
    /\ last.trans.msg_type = "NFT_MSG_DELRULE"
    /\ last.trans.rule = "r1"
    /\ last.cmd.command = "FLOW_CLS_DESTROY"
    /\ last.invoked # <<>>
    /\ installed["r1"] = last.cmd.cookie
    /\ installed["r2"] # NULL
    /\ installed["r2"] # last.cmd.cookie

\* The record just handled is a new-chain record that got past the checks of
\* nft_flow_offload_chain: a base chain with a device and a supported policy.
BindOnDevice ==
    /\ NewChainOnDevice
    /\ last.trans.policy \in {NF_ACCEPT, POLICY_UNSET}

\* C12: a bind is done through exactly one entry point, ndo_setup_tc when the
\* device has it (d1) and flow_indr_block_call otherwise; an indirect bind in
\* which no callback registers fails with EOPNOTSUPP and leaves the chain's
\* callback list as it was, so empty when the block was not bound before.
C12_OneStrategy ==
    /\ [](BindOnDevice =>
            /\ Len(last.setup) = 1
            /\ last.setup[1] = IF Chain(last.chain).dev = "d1"
                               THEN "ndo_setup_tc" ELSE "flow_indr_block_call"
            /\ (last.setup[1] = "flow_indr_block_call" /\ last.bo = <<>>)
                  => /\ last.err = EOPNOTSUPP
                     /\ walk.status = "returned"
                     /\ walk.err = EOPNOTSUPP)
    /\ [][(TransStep /\ last'.trans.msg_type = "NFT_MSG_NEWCHAIN"
                     /\ last'.setup = <<"flow_indr_block_call">>
                     /\ last'.bo = <<>>)
            => /\ cb_list' = cb_list
               /\ cb_list[last'.chain] = <<>> => cb_list'[last'.chain] = <<>>]_vars

\* The indirect bind of the unbound chain on d2 found no callback.
C12_Witness ==
    /\ BindOnDevice
    /\ last.chain = 5
    /\ last.setup = <<"flow_indr_block_call">>
    /\ last.bo = <<>>
    /\ last.err = EOPNOTSUPP
    /\ cb_list[5] = <<>>

\* The record handled before this step was a new-chain record that bound
\* callbacks to the block of chain c.
JustBound(c) ==
    /\ Handled
    /\ last.trans.msg_type = "NFT_MSG_NEWCHAIN"
    /\ last.chain = c
    /\ last.err = 0
    /\ last.bo # <<>>
    /\ cb_list[c] # <<>>

\* C13: a new-chain record for a chain whose block the record before it has
\* just bound is refused and leaves the callback list as it was.
C13_RebindRefused ==
    [][(TransStep /\ last'.res # "skip"
                  /\ last'.trans.msg_type = "NFT_MSG_NEWCHAIN"
                  /\ JustBound(last'.chain))
          => /\ last'.err < 0
             /\ cb_list' = cb_list]_vars

\* C14: the chain a late join hands its command to is an offload-enabled
\* device-family base chain that is bound to the device, and the block of a
\* chain without the offload flag is always empty.
C14_LateJoinTarget ==
    /\ [][(LateJoinStep /\ last'.setup # <<>>)
            => BoundTo(last'.chain, last'.dev)]_vars
    /\ [](\A c \in ChainIds : ~Chain(c).hw_offload => cb_list[c] = <<>>)

\* Record t is not of the device family, or is a record of a chain that does
\* not have the offload flag.
NotForOffload(t) ==
    IF t.family # "NFPROTO_NETDEV" THEN TRUE
    ELSE IF t.chain = 0 THEN FALSE
    ELSE ~Chain(t.chain).hw_offload

\* C15: a record that is not of the device family, and a record of a chain
\* without the offload flag, is passed over: no entry point and no callback is
\* called, no command is built, no flow rule is destroyed, no callback list
\* changes, the record does not fail whatever its policy or flags, and the
\* walk goes on to the next record.
C15_Skipped ==
    /\ []((last.op = "trans" /\ NotForOffload(last.trans))
            => /\ last.res = "skip"
               /\ last.err = 0
               /\ last.setup = <<>>
               /\ last.bo = <<>>
               /\ last.cmd = NoCmd
               /\ last.invoked = <<>>
               /\ ~last.destroyed
               /\ walk.err = 0
               /\ walk.status = IF walk.pos < walk.len THEN "walking" ELSE "returned")
    /\ [][(TransStep /\ NotForOffload(last'.trans))
            => /\ cb_list' = cb_list
               /\ installed' = installed]_vars

\* A new-rule record with the replace flag and a flow rule, on the chain
\* without the offload flag, was passed over and the walk goes on.
C15_Witness ==
    /\ last.op = "trans"
    /\ last.trans.msg_type = "NFT_MSG_NEWRULE"
    /\ last.trans.chain = 2
    /\ last.trans.flags = {"NLM_F_REPLACE"}
    /\ last.trans.flow # NULL
    /\ last.res = "skip"
    /\ last.idx = 1
    /\ walk.status = "walking"

\* C17: while nft_setup_cb_call traverses the callback list of a chain no
\* step changes that list, and the traversal never reads an entry that was
\* unlinked and freed.
C17_NoInterleaving ==
    /\ [][iter.status = "iterating"
            => cb_list'[iter.chain] = cb_list[iter.chain]]_vars
    /\ [](iter.status # "freed_read")

\* The record just handled is a new-chain or delete-chain record that was
\* not skipped.
ChainRecordHandled ==
    /\ Handled
    /\ last.trans.msg_type \in {"NFT_MSG_NEWCHAIN", "NFT_MSG_DELCHAIN"}

\* C19: a bind or unbind fails when the chain is not a base chain or has no
\* device and when the indirect path collects no callback, and may fail in
\* the device's native entry point; the commit then returns that error and
\* the step leaves every callback list as it was.
C19_FailedBindFrame ==
    /\ [](ChainRecordHandled =>
            /\ (~nft_is_base_chain(last.chain) \/ Chain(last.chain).dev = NULL)
                  => (last.err = EOPNOTSUPP /\ last.setup = <<>>)
            /\ (last.setup = <<"flow_indr_block_call">> /\ last.bo = <<>>)
                  => last.err = EOPNOTSUPP
            /\ (last.setup = <<"ndo_setup_tc">> /\ last.err # 0)
                  => last.err \in DevErrs
            /\ last.err # 0
                  => (walk.status = "returned" /\ walk.err = last.err))
    /\ [][(TransStep /\ last'.res # "skip" /\ last'.err # 0
                     /\ last'.trans.msg_type \in {"NFT_MSG_NEWCHAIN", "NFT_MSG_DELCHAIN"})
            => cb_list' = cb_list]_vars

\* The indirect unbind of the bound chain on d2 collected no callback: the
\* commit returned EOPNOTSUPP and the chain is still bound.
C19_Witness ==
    /\ ChainRecordHandled
    /\ last.trans.msg_type = "NFT_MSG_DELCHAIN"
    /\ last.chain = 5
    /\ last.bo = <<>>
    /\ last.err = EOPNOTSUPP
    /\ walk.status = "returned"
    /\ walk.err = EOPNOTSUPP
    /\ cb_list[5] # <<>>

\* Record t is a new-rule record nft_flow_rule_offload_commit accepts: of
\* the device family, on a chain with the offload flag, appended and not a
\* replacement.
AcceptedAppend(t) ==
    /\ t.msg_type = "NFT_MSG_NEWRULE"
    /\ t.family = "NFPROTO_NETDEV"
    /\ Chain(t.chain).hw_offload
    /\ "NLM_F_APPEND" \in t.flags
    /\ "NLM_F_REPLACE" \notin t.flags

\* C20: the flow rule of a new-rule record is destroyed exactly when the walk
\* reached the record and accepted it as a pure append on an offload-enabled
\* device-family chain, whatever the dispatch returned; only new-rule records
\* have a flow rule destroyed; a flow rule is destroyed only by the step that
\* handles its record, and every record is handled by at most one step of a
\* walk, none after the walk returned.
C20_DestroyedOnce ==
    /\ []((last.op = "trans" /\ last.trans.flow # NULL)
            => (last.destroyed <=> AcceptedAppend(last.trans)))
    /\ [](last.destroyed
            => /\ last.op = "trans"
               /\ last.trans.msg_type = "NFT_MSG_NEWRULE"
               /\ last.idx = walk.pos)
    /\ [][(last' # last /\ last'.destroyed)
            => /\ walk.status = "walking"
               /\ TransStep
               /\ last'.idx = walk.pos + 1]_vars
    /\ [][last'.op = "trans" /\ last' # last
            => /\ walk.status = "walking"
               /\ walk.err = 0
               /\ last'.idx = walk.pos + 1
               /\ walk'.pos = last'.idx]_vars

\* The flow rule of the second record was destroyed although a callback
\* refused the replace command.
C20_Witness ==
    /\ last.op = "trans"
    /\ last.idx = 2
    /\ last.trans.flow # NULL
    /\ AcceptedAppend(last.trans)
    /\ last.destroyed
    /\ last.invoked # <<>>
    /\ last.err < 0
    /\ walk.status = "returned"

(***************************************************************************)
(* Properties of the compiler (CompileSpec).                               *)
(***************************************************************************)
Compiled == comp.pc = "done"

AllOffloadable == \A i \in 1..Len(comp.rule) : comp.rule[i].offload

ActionBearing == {i \in 1..Len(comp.rule) : comp.rule[i].action}

NonOffloadable == {i \in 1..Len(comp.rule) : ~comp.rule[i].offload}

FirstNonOffloadable == CHOOSE i \in NonOffloadable : \A j \in NonOffloadable : i <= j

\* The original statement of C6, granted that the allocation succeeded: a
\* rule with a non-offloadable expression fails with EOPNOTSUPP, whatever the
\* other expressions' offload steps return, and leaves no flow rule.
C6_AlwaysUnsupported ==
    (Compiled /\ NonOffloadable # {} /\ comp.cause # "alloc")
        => /\ comp.err = EOPNOTSUPP
           /\ comp.flow.state # "live"

\* C6 (amended): a rule with a non-offloadable expression, at any position,
\* never compiles and no flow rule is retained: the flow rule that was
\* allocated is destroyed before compile returns.  The error is EOPNOTSUPP
\* unless the allocation failed (ENOMEM) or an expression before the first
\* non-offloadable one returned an error, which is then the error returned.
C6_FailsAndFrees ==
    (Compiled /\ NonOffloadable # {})
        => /\ comp.err < 0
           /\ comp.cause \in {"alloc", "no_offload", "offload_ret"}
           /\ comp.cause = "alloc" => (comp.err = ENOMEM /\ comp.flow.state = "none")
           /\ comp.cause = "no_offload" =>
                 /\ comp.err = EOPNOTSUPP
                 /\ comp.i = FirstNonOffloadable
                 /\ comp.flow.state = "destroyed"
           /\ comp.cause = "offload_ret" =>
                 /\ comp.i < FirstNonOffloadable
                 /\ comp.flow.state = "destroyed"

\* An offloadable expression compiled, then the non-offloadable second one
\* ended the compilation.
C6_Witness ==
    /\ Compiled
    /\ Len(comp.rule) = 2
    /\ NonOffloadable = {2}
    /\ comp.cause = "no_offload"
    /\ comp.flow.state = "destroyed"

\* This step is a call of nft_offload_update_dependency.
UpdateStep == comp'.ndep = comp.ndep + 1 /\ comp'.updrun > 0

\* C7: after any nft_offload_update_dependency call the pending dependency
\* type is unspecified, whatever it was before, and a call that follows
\* another one with no nft_offload_set_dependency in between changes neither
\* the layer 3 nor the layer 4 protocol number.
C7_SingleShot ==
    /\ [](comp.updrun > 0 => comp.ctx.type = "NFT_OFFLOAD_DEP_UNSPEC")
    /\ [][(UpdateStep /\ comp.updrun > 0)
             => /\ comp'.ctx.l3num = comp.ctx.l3num
                /\ comp'.ctx.protonum = comp.ctx.protonum]_vars

\* Two update calls in a row, the first of which captured a layer 3 number.
C7_Witness ==
    /\ comp.updrun = 2
    /\ comp.ctx.l3num # 0
    /\ comp.ctx.type = "NFT_OFFLOAD_DEP_UNSPEC"

\* C16: the protocol tag of a flow rule that compiled is the layer 3 number
\* copied by the last nft_offload_update_dependency call that ran with a
\* network dependency pending, 0 when there was no such call; a call made with
\* a transport dependency or with none pending leaves the layer 3 number alone.
C16_ProtoTag ==
    /\ [](comp.ctx.l3num = comp.netval)
    /\ []((Compiled /\ comp.err = 0)
            => /\ comp.flow.state = "live"
               /\ comp.flow.proto = comp.netval)
    /\ [][(UpdateStep /\ comp.ctx.type # "NFT_OFFLOAD_DEP_NETWORK")
            => comp'.ctx.l3num = comp.ctx.l3num]_vars

\* A rule compiled after a network dependency was captured and a later update
\* call, made with nothing pending, left it alone.
C16_Witness ==
    /\ Compiled
    /\ comp.err = 0
    /\ comp.flow.proto # 0
    /\ comp.flow.proto = comp.netval
    /\ comp.updrun = 2
    /\ comp.ndep = 3

\* The width in bytes of the value a dependency of the given type captures;
\* 0 when no dependency is pending.
DepWidth(type) ==
    CASE type = "NFT_OFFLOAD_DEP_NETWORK" -> 2
      [] type = "NFT_OFFLOAD_DEP_TRANSPORT" -> 1
      [] OTHER -> 0

\* C18: an nft_offload_update_dependency call whose len differs from the
\* width of the pending dependency runs into the WARN_ON, so what it stores
\* is not stored silently, and a call whose len is that width does not.
C18_LengthFlagged ==
    [][(UpdateStep /\ DepWidth(comp.ctx.type) # 0)
          => (comp'.flagged <=> comp'.len # DepWidth(comp.ctx.type))]_vars

\* A call with len 2 and a transport dependency pending was flagged.
C18_Witness ==
    /\ comp.updrun = 1
    /\ comp.len = 2
    /\ comp.flagged
    /\ comp.netval = 0
    /\ comp.ctx.l3num = 0
    /\ comp.ndep = 2

====
